---- MODULE Spec2Model ----
(***************************************************************************)
(* Model of ezdxf.math.rtree: the immutable spatial search tree RTree, its *)
(* construction (make_node / box_split) and its queries (len, contains,    *)
(* nearest_neighbor, points_in_sphere, points_in_bbox).                    *)
(*                                                                         *)
(* Numbers.  Coordinates are integers counted in units of the absolute     *)
(* tolerance of Vec3.isclose, so isclose(a, b) is |a - b| <= AbsTol on     *)
(* every axis.  Indexed points lie on a grid of spacing 2 * AbsTol, query  *)
(* points on every integer of the grid grown by QMargin.  A distance is    *)
(* represented by its square (Dist2), a distance to a bounding box centre  *)
(* by four times its square (both coordinates doubled), which keeps <, <=  *)
(* and == between distances exact.  nn_dist = INF is the flag inf.         *)
(***************************************************************************)
EXTENDS Integers, Sequences, FiniteSets, TLC

\* ---------------------------------------------------------------- bounds
MaxCoord == 1
MaxZ == 0
MaxPoints == 5
MaxNodeSize == 3
MaxRadius == 3
QMargin == 2

\* ------------------------------------------------- geometry (ezdxf.math)
AbsTol == 1

Spacing == 2 * AbsTol

Axes == 1..3

Coords == {Spacing * i : i \in 0..MaxCoord}

ZCoords == {Spacing * i : i \in 0..MaxZ}

GridPoints == {<<x, y, z>> : x \in Coords, y \in Coords, z \in ZCoords}

QCoords == (0 - QMargin)..(Spacing * MaxCoord + QMargin)

QueryPoints == {<<x, y, z>> : x \in QCoords, y \in QCoords, z \in ZCoords}

BoxCoords == 0..(Spacing * MaxCoord)

BoxCorners == {<<x, y, z>> : x \in BoxCoords, y \in BoxCoords, z \in ZCoords}

Origin == <<0, 0, 0>>

Range(s) == {s[i] : i \in 1..Len(s)}

SetMin(S) == CHOOSE m \in S : \A x \in S : m <= x

SetMax(S) == CHOOSE m \in S : \A x \in S : m >= x

Abs(a) == IF a < 0 THEN 0 - a ELSE a

\* math.ceil(a / b) for a >= 0, b > 0
CeilDiv(a, b) == (a + b - 1) \div b

\* Vec3.distance, squared
Dist2(a, b) ==
    (a[1] - b[1]) * (a[1] - b[1]) + (a[2] - b[2]) * (a[2] - b[2])
        + (a[3] - b[3]) * (a[3] - b[3])

\* Vec3.isclose: every coordinate within the tolerance
IsClose(a, b) == \A i \in Axes : Abs(a[i] - b[i]) <= AbsTol

\* Vec3.__lt__: x first, then y, then z
VecLess(a, b) ==
    IF a[1] = b[1]
    THEN IF a[2] = b[2] THEN a[3] < b[3] ELSE a[2] < b[2]
    ELSE a[1] < b[1]

\* BoundingBox(vertices) of a non-empty collection
BoundingBox(S) ==
    [extmin |-> [i \in Axes |-> SetMin({p[i] : p \in S})],
     extmax |-> [i \in Axes |-> SetMax({p[i] : p \in S})]]

\* BoundingBox.inside: boundary included
Inside(box, p) == \A i \in Axes : box.extmin[i] <= p[i] /\ p[i] <= box.extmax[i]

\* BoundingBox.has_overlap: touching boxes overlap
HasOverlap(a, b) ==
    \A i \in Axes : ~(a.extmin[i] > b.extmax[i]) /\ ~(a.extmax[i] < b.extmin[i])

\* BoundingBox.size
BoxSize(box) == [i \in Axes |-> box.extmax[i] - box.extmin[i]]

\* BoundingBox.center, both coordinates doubled
Center2(box) == [i \in Axes |-> box.extmin[i] + box.extmax[i]]

\* the box tested without growing it by nn_dist
GrowBoxInside_NoGrow(box, inf, d2, target) == Inside(box, target)

\* grow_box(box, dist).inside(target), dist given by its square d2:
\* extmin - dist <= t <= extmax + dist on every axis
GrowBoxInside(box, inf, d2, target) ==
    inf \/ \A i \in Axes :
        /\ (box.extmin[i] - target[i] <= 0
              \/ (box.extmin[i] - target[i]) * (box.extmin[i] - target[i]) <= d2)
        /\ (target[i] - box.extmax[i] <= 0
              \/ (target[i] - box.extmax[i]) * (target[i] - box.extmax[i]) <= d2)

\* ------------------------------------------------------------- the nodes
NoBox == [extmin |-> Origin, extmax |-> Origin]

NoNode == [leaf |-> TRUE, points |-> <<>>, children |-> <<>>, bbox |-> NoBox]

LeafNode(pts) ==
    [leaf |-> TRUE, points |-> pts, children |-> <<>>,
     bbox |-> BoundingBox(Range(pts))]

InnerNode(children) ==
    [leaf |-> FALSE, points |-> <<>>, children |-> children,
     bbox |-> BoundingBox(UNION {{children[i].bbox.extmin, children[i].bbox.extmax} :
                                    i \in 1..Len(children)})]

\* ---------------------------------------------------------- construction
RECURSIVE InsertSorted(_, _, _)
InsertSorted(sorted, p, dim) ==
    IF sorted = <<>> THEN <<p>>
    ELSE IF Head(sorted)[dim] <= p[dim]
         THEN <<Head(sorted)>> \o InsertSorted(Tail(sorted), p, dim)
         ELSE <<p>> \o sorted

\* list.sort(key=lambda vec: vec[dim]): stable
RECURSIVE SortByAxis(_, _)
SortByAxis(pts, dim) ==
    IF pts = <<>> THEN <<>>
    ELSE InsertSorted(SortByAxis(SubSeq(pts, 1, Len(pts) - 1), dim), pts[Len(pts)], dim)

\* size.index(max(size)): the first widest axis
WidestAxis(pts) ==
    LET size == BoxSize(BoundingBox(Range(pts)))
        widest == SetMax({size[i] : i \in Axes})
    IN  SetMin({i \in Axes : size[i] = widest})

\* the slices taken for i in range(0, n - 1, k)
Chunks_ShortRange(sorted, k) ==
    LET n == Len(sorted)
    IN  [j \in 1..CeilDiv(n - 1, k) |->
            SubSeq(sorted, (j - 1) * k + 1, IF j * k < n THEN j * k ELSE n)]

\* the slices points[i : i + k] for i in range(0, n, k)
Chunks(sorted, k) ==
    LET n == Len(sorted)
    IN  [j \in 1..CeilDiv(n, k) |->
            SubSeq(sorted, (j - 1) * k + 1, IF j * k < n THEN j * k ELSE n)]

RECURSIVE make_node(_, _)
RECURSIVE box_split(_, _)
\* the groups cut with max_size points each instead of k
box_split_GroupsOfMaxSize(pts, max_size) ==
    LET sorted == SortByAxis(pts, WidestAxis(pts))
        groups == Chunks(sorted, max_size)
    IN  [j \in 1..Len(groups) |-> make_node(groups[j], max_size)]

box_split(pts, max_size) ==
    LET n == Len(pts)
        sorted == SortByAxis(pts, WidestAxis(pts))
        k == CeilDiv(n, max_size)
        groups == Chunks(sorted, k)
    IN  [j \in 1..Len(groups) |-> make_node(groups[j], max_size)]

make_node(pts, max_size) ==
    IF Len(pts) > max_size
    THEN InnerNode(box_split(pts, max_size))
    ELSE LeafNode(pts)

\* the capacity check off by one: max_node_size <= 2 rejected
RTreeInit_RejectsTwo(pts, max_size) ==
    IF max_size <= 2 THEN [status |-> "ValueError", root |-> NoNode]
    ELSE IF Len(pts) = 0 THEN [status |-> "ValueError", root |-> NoNode]
    ELSE [status |-> "ok", root |-> make_node(pts, max_size)]

\* RTree.__init__: the outcome and the root it leaves
RTreeInit(pts, max_size) ==
    IF max_size < 2 THEN [status |-> "ValueError", root |-> NoNode]
    ELSE IF Len(pts) = 0 THEN [status |-> "ValueError", root |-> NoNode]
    ELSE [status |-> "ok", root |-> make_node(pts, max_size)]

\* --------------------------------------------------------------- queries
\* Node.__len__
RECURSIVE NodeLen(_)
RECURSIVE SumLen(_, _)
SumLen(children, i) ==
    IF i > Len(children) THEN 0 ELSE NodeLen(children[i]) + SumLen(children, i + 1)

NodeLen(node) ==
    IF node.leaf THEN Len(node.points) ELSE SumLen(node.children, 1)

\* LeafNode.contains
LeafContains(node, point) == \E i \in 1..Len(node.points) : IsClose(point, node.points[i])

\* Node.contains; InnerNode.contains asks the children whose box holds the point
RECURSIVE NodeContains(_, _)
\* the answer of the first child whose box holds the point returned at once
NodeContains_FirstBoxOnly(node, point) ==
    IF node.leaf THEN LeafContains(node, point)
    ELSE LET holds == {i \in 1..Len(node.children) : Inside(node.children[i].bbox, point)}
         IN  holds # {} /\ NodeContains(node.children[SetMin(holds)], point)

NodeContains(node, point) ==
    IF node.leaf THEN LeafContains(node, point)
    ELSE \E i \in 1..Len(node.children) :
            /\ Inside(node.children[i].bbox, point)
            /\ NodeContains(node.children[i], point)

\* Vec3.__eq__
VecEq(a, b) == a = b

\* (distance, point) < (distance, point) as Python compares tuples
PairLess(a, b) ==
    IF a[1] # b[1] THEN a[1] < b[1]
    ELSE IF ~VecEq(a[2], b[2]) THEN VecLess(a[2], b[2])
    ELSE FALSE

\* min((target.distance(p), p) for p in self.points): the first least pair
RECURSIVE MinPair(_, _, _, _)
\* the pairs compared by their distance alone, as min(..., key=distance) would
MinPair_ByDistance(pts, target, i, best) ==
    IF i > Len(pts) THEN best
    ELSE LET item == <<Dist2(target, pts[i]), pts[i]>>
         IN  MinPair(pts, target, i + 1, IF item[1] < best[1] THEN item ELSE best)

MinPair(pts, target, i, best) ==
    IF i > Len(pts) THEN best
    ELSE LET item == <<Dist2(target, pts[i]), pts[i]>>
         IN  MinPair(pts, target, i + 1, IF PairLess(item, best) THEN item ELSE best)

\* distance < nn_dist
DistLess(d, inf, nn_dist) == inf \/ d < nn_dist

NNStart == [raised |-> FALSE, inf |-> TRUE, nn |-> Origin, dist |-> 0]

\* LeafNode._nearest_neighbor
LeafNearest(node, target, st) ==
    LET first == <<Dist2(target, node.points[1]), node.points[1]>>
        best == MinPair(node.points, target, 2, first)
    IN  IF DistLess(best[1], st.inf, st.dist)
        THEN [raised |-> FALSE, inf |-> FALSE, nn |-> best[2], dist |-> best[1]]
        ELSE st

\* point.distance(child.bbox.center), as four times its square
CenterDist(child, point) ==
    Dist2([i \in Axes |-> 2 * point[i]], Center2(child.bbox))

\* find_closest_child: min over (distance, child) pairs.  Two pairs of equal
\* distance are ordered by child < child, which Node does not define: the
\* comparison raises TypeError, modelled as the result 0.
RECURSIVE ClosestFold(_, _, _, _)
ClosestFold(children, point, i, best) ==
    IF i > Len(children) THEN best
    ELSE LET d == CenterDist(children[i], point)
             b == CenterDist(children[best], point)
         IN  IF d = b THEN 0
             ELSE ClosestFold(children, point, i + 1, IF d < b THEN i ELSE best)

find_closest_child(children, point) == ClosestFold(children, point, 2, 1)

\* Node._nearest_neighbor
RECURSIVE NodeNearest(_, _, _)
RECURSIVE Siblings(_, _, _, _, _)
\* the loop of InnerNode._nearest_neighbor over the other children
Siblings(node, target, closest, i, st) ==
    IF i > Len(node.children) \/ st.raised THEN st
    ELSE IF i = closest THEN Siblings(node, target, closest, i + 1, st)
    ELSE IF GrowBoxInside(node.children[i].bbox, st.inf, st.dist, target)
         THEN LET r == NodeNearest(node.children[i], target, st)
              IN  IF r.raised THEN r
                  ELSE IF DistLess(r.dist, st.inf, st.dist)
                       THEN Siblings(node, target, closest, i + 1, r)
                       ELSE Siblings(node, target, closest, i + 1, st)
         ELSE Siblings(node, target, closest, i + 1, st)

\* InnerNode._nearest_neighbor
InnerNearest(node, target, st) ==
    LET closest == find_closest_child(node.children, target)
    IN  IF closest = 0 THEN [st EXCEPT !.raised = TRUE]
        ELSE Siblings(node, target, closest, 1,
                      NodeNearest(node.children[closest], target, st))

NodeNearest(node, target, st) ==
    IF node.leaf THEN LeafNearest(node, target, st) ELSE InnerNearest(node, target, st)

\* half the box size left out of intersection_distance
is_sphere_intersecting_bbox_NoHalfSize(centroid, radius, center2, size) ==
    \A i \in Axes : ~(Abs(2 * centroid[i] - center2[i]) > 2 * radius)

\* is_sphere_intersecting_bbox, the box centre doubled (center2) and so
\* both sides of every comparison doubled
is_sphere_intersecting_bbox(centroid, radius, center2, size) ==
    \A i \in Axes : ~(Abs(2 * centroid[i] - center2[i]) > size[i] + 2 * radius)

\* LeafNode.points_in_sphere
LeafInSphere(node, center, radius) ==
    SelectSeq(node.points, LAMBDA p : Dist2(center, p) <= radius * radius)

\* Node.points_in_sphere, the generator read to its end
RECURSIVE NodeInSphere(_, _, _)
RECURSIVE ChildrenInSphere(_, _, _, _)
ChildrenInSphere(node, center, radius, i) ==
    IF i > Len(node.children) THEN <<>>
    ELSE (IF is_sphere_intersecting_bbox(center, radius,
                 Center2(node.children[i].bbox), BoxSize(node.children[i].bbox))
          THEN NodeInSphere(node.children[i], center, radius)
          ELSE <<>>) \o ChildrenInSphere(node, center, radius, i + 1)

NodeInSphere(node, center, radius) ==
    IF node.leaf THEN LeafInSphere(node, center, radius)
    ELSE ChildrenInSphere(node, center, radius, 1)

\* LeafNode.points_in_bbox
LeafInBBox(node, bbox) == SelectSeq(node.points, LAMBDA p : Inside(bbox, p))

\* Node.points_in_bbox, the generator read to its end
RECURSIVE NodeInBBox(_, _)
RECURSIVE ChildrenInBBox(_, _, _)
\* a child entered only when the query box holds its whole box
ChildrenInBBox_WhollyInside(node, bbox, i) ==
    IF i > Len(node.children) THEN <<>>
    ELSE (IF Inside(bbox, node.children[i].bbox.extmin)
               /\ Inside(bbox, node.children[i].bbox.extmax)
          THEN NodeInBBox(node.children[i], bbox)
          ELSE <<>>) \o ChildrenInBBox(node, bbox, i + 1)

ChildrenInBBox(node, bbox, i) ==
    IF i > Len(node.children) THEN <<>>
    ELSE (IF HasOverlap(bbox, node.children[i].bbox)
          THEN NodeInBBox(node.children[i], bbox)
          ELSE <<>>) \o ChildrenInBBox(node, bbox, i + 1)

NodeInBBox(node, bbox) ==
    IF node.leaf THEN LeafInBBox(node, bbox) ELSE ChildrenInBBox(node, bbox, 1)

\* ----------------------------------------------------------------- state
VARIABLES points, max_node_size, status, root, call, ret

vars == <<points, max_node_size, status, root, call, ret>>

NoCall == [op |-> "none", point |-> Origin, radius |-> 0, bbox |-> NoBox]

NoRet == [raised |-> "none", bool |-> FALSE, point |-> Origin, seq |-> <<>>, int |-> 0]

SeqsUpTo(S, n) == UNION {[1..m -> S] : m \in 0..n}

Init ==
    /\ points \in SeqsUpTo(GridPoints, MaxPoints)
    /\ max_node_size \in 0..MaxNodeSize
    /\ status = "new"
    /\ root = NoNode
    /\ call = NoCall
    /\ ret = NoRet

\* The caller is between calls when call.op = "none"; an operation records its
\* arguments and its outcome in call and ret, and Return hands control back.
Construct ==
    /\ status = "new"
    /\ call.op = "none"
    /\ LET r == RTreeInit(points, max_node_size)
       IN  /\ status' = r.status
           /\ root' = r.root
    /\ call' = [NoCall EXCEPT !.op = "init"]
    /\ ret' = NoRet
    /\ UNCHANGED <<points, max_node_size>>

\* RTree.__len__
LenOp ==
    /\ status = "ok"
    /\ call.op = "none"
    /\ call' = [NoCall EXCEPT !.op = "len"]
    /\ ret' = [NoRet EXCEPT !.int = NodeLen(root)]
    /\ UNCHANGED <<points, max_node_size, status, root>>

\* RTree.contains
ContainsOp ==
    /\ status = "ok"
    /\ call.op = "none"
    /\ \E q \in QueryPoints :
        /\ call' = [NoCall EXCEPT !.op = "contains", !.point = q]
        /\ ret' = [NoRet EXCEPT !.bool = NodeContains(root, q)]
    /\ UNCHANGED <<points, max_node_size, status, root>>

\* RTree.nearest_neighbor (Node.nearest_neighbor)
NearestNeighborOp ==
    /\ status = "ok"
    /\ call.op = "none"
    /\ \E t \in QueryPoints :
        LET r == NodeNearest(root, t, NNStart)
        IN  /\ call' = [NoCall EXCEPT !.op = "nearest_neighbor", !.point = t]
            /\ ret' = IF r.raised THEN [NoRet EXCEPT !.raised = "TypeError"]
                      ELSE IF r.inf THEN [NoRet EXCEPT !.raised = "AssertionError"]
                      ELSE [NoRet EXCEPT !.point = r.nn]
    /\ UNCHANGED <<points, max_node_size, status, root>>

\* RTree.points_in_sphere
PointsInSphereOp ==
    /\ status = "ok"
    /\ call.op = "none"
    /\ \E c \in QueryPoints, r \in 0..MaxRadius :
        /\ call' = [NoCall EXCEPT !.op = "points_in_sphere", !.point = c, !.radius = r]
        /\ ret' = [NoRet EXCEPT !.seq = NodeInSphere(root, c, r)]
    /\ UNCHANGED <<points, max_node_size, status, root>>

\* RTree.points_in_bbox, the query box built as BoundingBox([a, b])
PointsInBBoxOp ==
    /\ status = "ok"
    /\ call.op = "none"
    /\ \E a \in BoxCorners, b \in BoxCorners :
        LET box == BoundingBox({a, b})
        IN  /\ call' = [NoCall EXCEPT !.op = "points_in_bbox", !.bbox = box]
            /\ ret' = [NoRet EXCEPT !.seq = NodeInBBox(root, box)]
    /\ UNCHANGED <<points, max_node_size, status, root>>

\* the caller takes the outcome of the last call
Return ==
    /\ call.op # "none"
    /\ call' = NoCall
    /\ ret' = NoRet
    /\ UNCHANGED <<points, max_node_size, status, root>>

Next ==
    \/ Construct
    \/ LenOp
    \/ ContainsOp
    \/ NearestNeighborOp
    \/ PointsInSphereOp
    \/ PointsInBBoxOp
    \/ Return

Spec == Init /\ [][Next]_vars

\* ------------------------------------------------- what the claims speak of
Count(seq, p) == Cardinality({i \in 1..Len(seq) : seq[i] = p})

\* the points under a node, leaf by leaf in stored order
RECURSIVE AllPoints(_)
RECURSIVE ChildPoints(_, _)
ChildPoints(children, i) ==
    IF i > Len(children) THEN <<>>
    ELSE AllPoints(children[i]) \o ChildPoints(children, i + 1)

AllPoints(node) == IF node.leaf THEN node.points ELSE ChildPoints(node.children, 1)

\* the inner nodes of a tree
RECURSIVE InnerNodes(_)
InnerNodes(node) ==
    IF node.leaf THEN {}
    ELSE {node} \cup UNION {InnerNodes(node.children[i]) : i \in 1..Len(node.children)}

Depth3(node) == ~node.leaf /\ \E i \in 1..Len(node.children) : ~node.children[i].leaf

\* the leaves in the order a nearest-neighbour search without pruning meets
\* them: the closest-centre child first, then the others in stored order
RECURSIVE TraversalLeaves(_, _)
RECURSIVE TraversalOf(_, _, _, _)
TraversalOf(node, target, order, i) ==
    IF i > Len(order) THEN <<>>
    ELSE TraversalLeaves(node.children[order[i]], target)
            \o TraversalOf(node, target, order, i + 1)

TraversalLeaves(node, target) ==
    IF node.leaf THEN <<node.points>>
    ELSE LET n == Len(node.children)
             c == find_closest_child(node.children, target)
             stored == [i \in 1..n |-> i]
             order == IF c = 0 THEN stored
                      ELSE <<c>> \o SelectSeq(stored, LAMBDA i : i # c)
         IN  TraversalOf(node, target, order, 1)

RECURSIVE Flatten(_, _)
Flatten(seqs, i) == IF i > Len(seqs) THEN <<>> ELSE seqs[i] \o Flatten(seqs, i + 1)

MinDist2(target) == SetMin({Dist2(target, points[i]) : i \in 1..Len(points)})

Returned(op) == call.op = op /\ ret.raised = "none"

\* C1: the point nearest_neighbor returns is an indexed point and no indexed
\* point is strictly closer to the target.
C1_NearestIsClosest ==
    Returned("nearest_neighbor") =>
        /\ ret.point \in Range(points)
        /\ \A i \in 1..Len(points) :
              Dist2(call.point, ret.point) <= Dist2(call.point, points[i])

\* C1 witness: the answer is strictly closer than every point of the
\* closest-centre child of the root, so it was found in a sibling, and the
\* grown box of another sibling does not hold the target.
C1_Witness ==
    /\ Returned("nearest_neighbor")
    /\ ~root.leaf
    /\ LET c == find_closest_child(root.children, call.point)
           d2 == Dist2(call.point, ret.point)
       IN  /\ \A p \in Range(AllPoints(root.children[c])) : Dist2(call.point, p) > d2
           /\ \E i \in 1..Len(root.children) :
                 /\ i # c
                 /\ ~GrowBoxInside(root.children[i].bbox, FALSE, d2, call.point)

\* C2 (as claimed): nearest_neighbor returns a point for every target and
\* never raises.
C2_NearestNeverRaises == call.op = "nearest_neighbor" => ret.raised = "none"

\* C3: points_in_sphere yields exactly the indexed points within the radius
\* of the centre, the boundary included, each occurrence once.
C3_SphereExact ==
    call.op = "points_in_sphere" =>
        \A p \in GridPoints :
            Count(ret.seq, p) =
                IF Dist2(call.point, p) <= call.radius * call.radius
                THEN Count(points, p) ELSE 0

\* C3 witness: an inner root one of whose children the rejection test skips,
\* a yielded point exactly at the radius, and an indexed point left out.
C3_Witness ==
    /\ call.op = "points_in_sphere"
    /\ call.radius > 0
    /\ ~root.leaf
    /\ \E i \in 1..Len(root.children) :
          ~is_sphere_intersecting_bbox(call.point, call.radius,
               Center2(root.children[i].bbox), BoxSize(root.children[i].bbox))
    /\ \E j \in 1..Len(ret.seq) :
          Dist2(call.point, ret.seq[j]) = call.radius * call.radius
    /\ Len(ret.seq) < Len(points)

\* C4: points_in_bbox yields exactly the indexed points inside the query box,
\* its boundary included, each occurrence once.
C4_BBoxExact ==
    call.op = "points_in_bbox" =>
        \A p \in GridPoints :
            Count(ret.seq, p) = IF Inside(call.bbox, p) THEN Count(points, p) ELSE 0

\* C4 witness: an inner root with a child the overlap test skips and a child
\* that only partly lies in the query box, and a yielded point on the face of
\* a query box that is no single point.
C4_Witness ==
    /\ call.op = "points_in_bbox"
    /\ ~root.leaf
    /\ \E i \in 1..Len(root.children) : ~HasOverlap(call.bbox, root.children[i].bbox)
    /\ \E i \in 1..Len(root.children) :
          /\ HasOverlap(call.bbox, root.children[i].bbox)
          /\ ~Inside(call.bbox, root.children[i].bbox.extmax)
    /\ call.bbox.extmin[1] < call.bbox.extmax[1]
    /\ \E j \in 1..Len(ret.seq) : ret.seq[j][1] = call.bbox.extmax[1]

\* C5: contains(p) is true for every point p of the input collection.
C5_ContainsEveryInput ==
    (call.op = "contains" /\ call.point \in Range(points)) => ret.bool

\* C5 witness: a tree of three levels, the point asked for stored under the
\* last child of the root only.
C5_Witness ==
    /\ call.op = "contains"
    /\ Depth3(root)
    /\ call.point \in Range(AllPoints(root.children[Len(root.children)]))
    /\ call.point \notin Range(AllPoints(root.children[1]))
    /\ ret.bool

\* C6: len(index) is the number of points supplied, and the leaves hold every
\* supplied point as often as it was supplied.
C6_LenIsCount ==
    call.op = "len" =>
        /\ ret.int = Len(points)
        /\ \A p \in GridPoints : Count(AllPoints(root), p) = Count(points, p)

\* C6 witness: len of a tree of three levels built from five points, one of
\* them supplied twice.
C6_Witness ==
    /\ call.op = "len"
    /\ Depth3(root)
    /\ ret.int = 5
    /\ \E p \in GridPoints : Count(points, p) = 2

\* C7: construction raises ValueError, and builds no node, exactly when the
\* collection is empty or max_node_size < 2; only a constructed index is queried.
C7_ConstructionValidates ==
    /\ status = "ValueError" => (max_node_size < 2 \/ Len(points) = 0) /\ root = NoNode
    /\ status = "ok" => max_node_size >= 2 /\ Len(points) >= 1 /\ root # NoNode
    /\ call.op = "init" => status \in {"ok", "ValueError"}
    /\ call.op \notin {"none", "init"} => status = "ok"

\* C7 witness: construction from a non-empty collection with max_node_size = 1
\* has raised.
C7_Witness ==
    /\ call.op = "init"
    /\ status = "ValueError"
    /\ max_node_size = 1
    /\ Len(points) > 0

\* C8 (as claimed): every inner node has ceil(n / max_node_size) children,
\* n the number of points it was split from.
C8_ChildCountIsCeilNOverMax ==
    status = "ok" =>
        \A node \in InnerNodes(root) :
            Len(node.children) = CeilDiv(NodeLen(node), max_node_size)

\* C8 (amended): every inner node split from n points has ceil(n / k)
\* children, k = ceil(n / max_node_size) the group size: every child but the
\* last holds k points, the last between 1 and k, and there are at most
\* max_node_size children.
C8_ChildCountIsCeilNOverK ==
    status = "ok" =>
        \A node \in InnerNodes(root) :
            LET n == NodeLen(node)
                k == CeilDiv(n, max_node_size)
                m == Len(node.children)
            IN  /\ n > max_node_size
                /\ m = CeilDiv(n, k)
                /\ m <= max_node_size
                /\ \A j \in 1..(m - 1) : NodeLen(node.children[j]) = k
                /\ NodeLen(node.children[m]) >= 1
                /\ NodeLen(node.children[m]) <= k

\* C8 witness: a split whose child count differs from ceil(n / max_node_size).
C8_Witness ==
    /\ status = "ok"
    /\ \E node \in InnerNodes(root) :
          Len(node.children) # CeilDiv(NodeLen(node), max_node_size)

\* C9 (as claimed): contains(q) is true whenever some indexed point is equal
\* to q within the tolerance of isclose.
C9_ContainsWithinTolerance ==
    call.op = "contains" =>
        ((\E i \in 1..Len(points) : IsClose(call.point, points[i])) => ret.bool)

====
